---- MODULE Spec2Model ----
(***************************************************************************)
(* Bundle cart transform (extensions/bundle-cart-transform): the function  *)
(* cartTransformRun and its helper normalizeVariantIds, over JavaScript    *)
(* values.                                                                 *)
(*                                                                         *)
(* A JavaScript value is a record of its type tag t and, under a field of  *)
(* its own per type, its payload.  A string's payload is its sequence of   *)
(* symbols: one symbol per character, except that the run                  *)
(* "shopify/ProductVariant/" of an identifier is written as one symbol (it *)
(* holds no quote, comma, bracket, digit or white space, so every          *)
(* operation below treats it as it treats a letter).                       *)
(***************************************************************************)
EXTENDS Integers, Sequences, FiniteSets, TLC

\* The cart transform: the snapshot the runtime hands over, the position of
\* the call, what it returned, and the record of the calls made so far.
VARIABLES input, pc, result, calls

cartVars == <<input, pc, result, calls>>

\* The storefront page of the add-bundle button (extensions/bundle-add-to-cart,
\* assets/bundle-add-button.js): document.readyState, the document events
\* that init listens to and the last of them dispatched (lastEvent), the
\* blocks of the page, per block the button's
\* _bundleBound, the ids that bind parsed (boundIds), the button's click
\* listeners and disabled and the status element, the click handlers
\* suspended at an await, the cart-add requests sent, the bundle:add events
\* dispatched, window.location and the clicks so far.
VARIABLES readyState, registered, lastEvent, blocks, bundleBound, boundIds,
          listeners, disabled, status, handlers, requests, events, location,
          clicks

buttonVars ==
  <<readyState, registered, lastEvent, blocks, bundleBound, boundIds,
    listeners, disabled, status, handlers, requests, events, location, clicks>>

\* The create action of the admin route bundles.create: the submitted form,
\* the position of the action, the platform calls issued with what each
\* returned, and the response of the action.
VARIABLES form, at, issued, response

adminVars == <<form, at, issued, response>>

vars == <<cartVars, buttonVars, adminVars>>

\* No storefront page is open.
NoPage ==
  /\ readyState = "none"
  /\ registered = {}
  /\ lastEvent = "none"
  /\ blocks = <<>>
  /\ bundleBound = <<>>
  /\ boundIds = <<>>
  /\ listeners = <<>>
  /\ disabled = <<>>
  /\ status = <<>>
  /\ handlers = <<>>
  /\ requests = <<>>
  /\ events = <<>>
  /\ location = "none"
  /\ clicks = 0

\* No form was submitted to the admin route.
NoSubmission ==
  /\ form = "none"
  /\ at = "none"
  /\ issued = <<>>
  /\ response = "none"

(***************************************************************************)
(* Bounds of the input space.                                              *)
(***************************************************************************)
MaxLines == 2
MaxElems == 2
MaxPieces == 3
MaxCalls == 3
MaxClicks == 2

(***************************************************************************)
(* JavaScript values.                                                      *)
(***************************************************************************)
Undefined == [t |-> "undefined"]
Null == [t |-> "null"]
Bool(b) == [t |-> "boolean", b |-> b]
Num(n) == [t |-> "number", n |-> n]
Str(s) == [t |-> "string", s |-> s]
Arr(a) == [t |-> "array", a |-> a]
Obj(members) == [t |-> "object", m |-> members]

\* typeof x === "string"
IsString(x) == x.t = "string"

\* x == null, the test behind ?? and ?.
IsNullish(x) == x.t \in {"undefined", "null"}

\* ToBoolean(x): what !x, x || y and filter(Boolean) test.
Truthy(x) ==
  CASE x.t \in {"undefined", "null"} -> FALSE
    [] x.t = "boolean" -> x.b
    [] x.t = "number" -> x.n # 0
    [] x.t = "string" -> Len(x.s) > 0
    [] OTHER -> TRUE

\* x ?? d
Coalesce(x, d) == IF IsNullish(x) THEN d ELSE x

\* item?.key: undefined on null and undefined, the own property of an object
\* (the last member of that name wins, as JSON.parse builds it), undefined on
\* every other value.
RECURSIVE Lookup(_, _, _)
Lookup(members, key, k) ==
  IF k = 0 THEN Undefined
  ELSE IF members[k][1] = key THEN members[k][2]
  ELSE Lookup(members, key, k - 1)

OptGet(item, key) ==
  IF item.t = "object" THEN Lookup(item.m, key, Len(item.m)) ELSE Undefined

(***************************************************************************)
(* String.prototype.startsWith, trim and split(",").                       *)
(***************************************************************************)
WhiteSpace == {" "}

startsWith(s, prefix) ==
  Len(s) >= Len(prefix) /\ SubSeq(s, 1, Len(prefix)) = prefix

RECURSIVE trimStart(_)
trimStart(s) ==
  IF Len(s) > 0 /\ s[1] \in WhiteSpace THEN trimStart(Tail(s)) ELSE s

RECURSIVE trimEnd(_)
trimEnd(s) ==
  IF Len(s) > 0 /\ s[Len(s)] \in WhiteSpace
  THEN trimEnd(SubSeq(s, 1, Len(s) - 1))
  ELSE s

trim(s) == trimEnd(trimStart(s))

\* s.split(","): the pieces between the commas; one piece when there is none.
RECURSIVE splitFrom(_, _, _)
splitFrom(s, k, piece) ==
  IF k > Len(s) THEN <<piece>>
  ELSE IF s[k] = "," THEN <<piece>> \o splitFrom(s, k + 1, <<>>)
  ELSE splitFrom(s, k + 1, Append(piece, s[k]))

split(s) == splitFrom(s, 1, <<>>)

(***************************************************************************)
(* JSON.parse on a sequence of symbols: [ok |-> FALSE] is the SyntaxError. *)
(* The grammar is RFC 8259's over the symbols the inputs use: white space, *)
(* null, true, false, integers, strings without escapes, arrays, objects.  *)
(***************************************************************************)
Digits == <<"0", "1", "2", "3", "4", "5", "6", "7", "8", "9">>

IsDigit(c) == \E d \in 1..Len(Digits) : Digits[d] = c

DigitValue(c) == (CHOOSE d \in 1..Len(Digits) : Digits[d] = c) - 1

ParseFail == [ok |-> FALSE, v |-> Undefined, p |-> 0]

ParseOk(val, pos) == [ok |-> TRUE, v |-> val, p |-> pos]

RECURSIVE skipWs(_, _)
skipWs(s, p) ==
  IF p <= Len(s) /\ s[p] \in WhiteSpace THEN skipWs(s, p + 1) ELSE p

hasAt(s, p, lit) ==
  p + Len(lit) - 1 <= Len(s) /\ SubSeq(s, p, p + Len(lit) - 1) = lit

\* The digits from p on: [n |-> their value, p |-> the position after them].
RECURSIVE scanDigits(_, _, _)
scanDigits(s, p, acc) ==
  IF p <= Len(s) /\ IsDigit(s[p])
  THEN scanDigits(s, p + 1, 10 * acc + DigitValue(s[p]))
  ELSE [n |-> acc, p |-> p]

\* number: -? (0 | [1-9][0-9]*)
parseNumber(s, p) ==
  LET neg == p <= Len(s) /\ s[p] = "-"
      q == IF neg THEN p + 1 ELSE p
  IN IF ~(q <= Len(s) /\ IsDigit(s[q])) THEN ParseFail
     ELSE IF s[q] = "0" THEN ParseOk(Num(0), q + 1)
     ELSE LET d == scanDigits(s, q, 0)
          IN ParseOk(Num(IF neg THEN 0 - d.n ELSE d.n), d.p)

\* The position of the closing quote of the string opened before p, 0 if none.
RECURSIVE closingQuote(_, _)
closingQuote(s, p) ==
  IF p > Len(s) THEN 0
  ELSE IF s[p] = "\"" THEN p
  ELSE closingQuote(s, p + 1)

\* string: s[p] is the opening quote.
parseString(s, p) ==
  LET q == closingQuote(s, p + 1)
  IN IF q = 0 THEN ParseFail ELSE ParseOk(Str(SubSeq(s, p + 1, q - 1)), q + 1)

RECURSIVE parseValue(_, _)
RECURSIVE parseElements(_, _, _)
RECURSIVE parseMembers(_, _, _)

parseValue(s, p0) ==
  LET p == skipWs(s, p0)
  IN IF p > Len(s) THEN ParseFail
     ELSE IF hasAt(s, p, <<"n", "u", "l", "l">>) THEN ParseOk(Null, p + 4)
     ELSE IF hasAt(s, p, <<"t", "r", "u", "e">>) THEN ParseOk(Bool(TRUE), p + 4)
     ELSE IF hasAt(s, p, <<"f", "a", "l", "s", "e">>)
       THEN ParseOk(Bool(FALSE), p + 5)
     ELSE IF s[p] = "\"" THEN parseString(s, p)
     ELSE IF s[p] = "[" THEN
       LET q == skipWs(s, p + 1)
       IN IF q <= Len(s) /\ s[q] = "]" THEN ParseOk(Arr(<<>>), q + 1)
          ELSE parseElements(s, q, <<>>)
     ELSE IF s[p] = "{" THEN
       LET q == skipWs(s, p + 1)
       IN IF q <= Len(s) /\ s[q] = "}" THEN ParseOk(Obj(<<>>), q + 1)
          ELSE parseMembers(s, q, <<>>)
     ELSE parseNumber(s, p)

\* elements: value (, value)* ]
parseElements(s, p, acc) ==
  LET e == parseValue(s, p)
  IN IF ~e.ok THEN ParseFail
     ELSE LET q == skipWs(s, e.p)
          IN IF q > Len(s) THEN ParseFail
             ELSE IF s[q] = "]" THEN ParseOk(Arr(Append(acc, e.v)), q + 1)
             ELSE IF s[q] = "," THEN parseElements(s, q + 1, Append(acc, e.v))
             ELSE ParseFail

\* members: string : value (, string : value)* }
parseMembers(s, p0, acc) ==
  LET p == skipWs(s, p0)
  IN IF ~(p <= Len(s) /\ s[p] = "\"") THEN ParseFail
     ELSE LET key == parseString(s, p)
          IN IF ~key.ok THEN ParseFail
             ELSE LET c == skipWs(s, key.p)
                  IN IF ~(c <= Len(s) /\ s[c] = ":") THEN ParseFail
                     ELSE LET e == parseValue(s, c + 1)
                          IN IF ~e.ok THEN ParseFail
                             ELSE LET q == skipWs(s, e.p)
                                      more == Append(acc, <<key.v.s, e.v>>)
                                  IN IF q > Len(s) THEN ParseFail
                                     ELSE IF s[q] = "}"
                                       THEN ParseOk(Obj(more), q + 1)
                                     ELSE IF s[q] = ","
                                       THEN parseMembers(s, q + 1, more)
                                     ELSE ParseFail

\* Mutant of JSONparse: a text that is no JSON document is taken as a string.
JSONparse_lenient(s) ==
  IF parseValue(s, 1).ok /\ skipWs(s, parseValue(s, 1).p) = Len(s) + 1
  THEN [ok |-> TRUE, v |-> parseValue(s, 1).v]
  ELSE [ok |-> TRUE, v |-> Str(s)]

JSONparse(s) ==
  LET r == parseValue(s, 1)
  IN IF r.ok /\ skipWs(s, r.p) = Len(s) + 1
     THEN [ok |-> TRUE, v |-> r.v]
     ELSE [ok |-> FALSE, v |-> Undefined]

(***************************************************************************)
(* JSON.stringify, the encoding a tool applies when it persists a JSON     *)
(* payload into the metafield's value.                                     *)
(***************************************************************************)
RECURSIVE numberText(_)
numberText(n) ==
  IF n < 0 THEN <<"-">> \o numberText(0 - n)
  ELSE IF n < 10 THEN <<Digits[n + 1]>>
  ELSE numberText(n \div 10) \o <<Digits[(n % 10) + 1]>>

RECURSIVE stringify(_)
RECURSIVE stringifyElements(_, _)
RECURSIVE stringifyMembers(_, _)

stringify(x) ==
  CASE x.t = "null" -> <<"n", "u", "l", "l">>
    [] x.t = "boolean" ->
         IF x.b THEN <<"t", "r", "u", "e">> ELSE <<"f", "a", "l", "s", "e">>
    [] x.t = "number" -> numberText(x.n)
    [] x.t = "string" -> <<"\"">> \o x.s \o <<"\"">>
    [] x.t = "array" -> <<"[">> \o stringifyElements(x.a, 1) \o <<"]">>
    [] x.t = "object" -> <<"{">> \o stringifyMembers(x.m, 1) \o <<"}">>

stringifyElements(a, k) ==
  IF k > Len(a) THEN <<>>
  ELSE stringify(a[k])
       \o (IF k < Len(a) THEN <<",">> ELSE <<>>)
       \o stringifyElements(a, k + 1)

stringifyMembers(m, k) ==
  IF k > Len(m) THEN <<>>
  ELSE <<"\"">> \o m[k][1] \o <<"\"", ":">> \o stringify(m[k][2])
       \o (IF k < Len(m) THEN <<",">> ELSE <<>>)
       \o stringifyMembers(m, k + 1)

(***************************************************************************)
(* normalizeVariantIds.                                                    *)
(***************************************************************************)
GidPrefix == <<"g", "i", "d", ":", "/", "/">>

\* The property names id and gid.
IdKey == <<"i", "d">>

GidKey == <<"g", "i", "d">>

\* A call's outcome: the exception flag and the value returned.
Returned(val) == [threw |-> FALSE, val |-> val]

Thrown == [threw |-> TRUE, val |-> <<>>]

\* Mutant of tryParse: the try/catch is missing, so JSON.parse's SyntaxError
\* leaves the function.
tryParse_uncaught(parsed, raw) ==
  IF parsed.ok THEN Returned(parsed.v) ELSE Thrown

\* try { raw = JSON.parse(mf.value) } catch (_) {}: the SyntaxError is
\* swallowed and raw keeps the value it had.
tryParse(parsed, raw) ==
  IF parsed.ok THEN Returned(parsed.v) ELSE Returned(raw)

\* Mutant of rawOf: a string value is parsed whatever jsonValue holds.
rawOf_valueFirst(mf) ==
  IF IsString(mf.value)
  THEN tryParse(JSONparse(mf.value.s), mf.jsonValue)
  ELSE Returned(mf.jsonValue)

\* let raw = mf.jsonValue; try { if (!raw && typeof mf.value === "string")
\* raw = JSON.parse(mf.value) } catch (_) {}
rawOf(mf) ==
  IF ~Truthy(mf.jsonValue) /\ IsString(mf.value)
  THEN tryParse(JSONparse(mf.value.s), mf.jsonValue)
  ELSE Returned(mf.jsonValue)

\* a || b
Or(a, b) == IF Truthy(a) THEN a ELSE b

\* Mutant of itemId: the gid member is never consulted.
itemId_idOnly(item) ==
  IF IsString(item) THEN item ELSE Or(OptGet(item, IdKey), Null)

\* typeof item === "string" ? item : item?.id || item?.gid || null
itemId(item) ==
  IF IsString(item) THEN item
  ELSE Or(Or(OptGet(item, IdKey), OptGet(item, GidKey)), Null)

\* .filter(Boolean)
filterBoolean(a) == SelectSeq(a, Truthy)

\* The Array.isArray(raw) branch: raw.map(...).filter(Boolean)
fromArray(raw) == filterBoolean([k \in 1..Len(raw.a) |-> itemId(raw.a[k])])

\* .map(s => s.trim())
mapTrim(pieces) == [k \in 1..Len(pieces) |-> trim(pieces[k])]

\* .filter(s => s.startsWith("gid://"))
filterGid(pieces) ==
  SelectSeq(pieces, LAMBDA piece : startsWith(piece, GidPrefix))

\* The strings as JavaScript values.
asStrings(pieces) == [k \in 1..Len(pieces) |-> Str(pieces[k])]

\* raw.split(",").map(s => s.trim()).filter(s => s.startsWith("gid://"))
trimmedGids(s) == asStrings(filterGid(mapTrim(split(s))))

\* Mutant of fromString: the string is split whatever it begins with.
fromString_splitFirst(raw) == trimmedGids(raw.s)

\* The typeof raw === "string" branch.
fromString(raw) ==
  IF startsWith(raw.s, GidPrefix) THEN <<raw>> ELSE trimmedGids(raw.s)

\* The branches on raw.
idsOf(raw) ==
  IF raw.t = "array" THEN fromArray(raw)
  ELSE IF IsString(raw) THEN fromString(raw)
  ELSE <<>>

\* The statements after the try block: an exception would pass through them.
idsAfter(outcome) ==
  IF outcome.threw THEN Thrown ELSE Returned(idsOf(outcome.val))

\* normalizeVariantIds(mf): the list of identifiers, or the exception.
normalizeVariantIds(mf) ==
  IF ~Truthy(mf) THEN Returned(<<>>) ELSE idsAfter(rawOf(mf))

(***************************************************************************)
(* cartTransformRun.                                                       *)
(***************************************************************************)
ExpectedType == "list.variant_reference"

\* Mutant of notProductVariant: only !merch is tested.
notProductVariant_anyType(merch) == ~Truthy(merch)

\* !merch || merch.__typename !== "ProductVariant"
notProductVariant(merch) ==
  ~Truthy(merch) \/ merch.typename # "ProductVariant"

\* Mutant of notBundleRefs: only !mf is tested.
notBundleRefs_anyType(mf) == ~Truthy(mf)

\* !mf || mf.type !== "list.variant_reference"
notBundleRefs(mf) == ~Truthy(mf) \/ mf.type # ExpectedType

\* Mutant of quantityOf: line.quantity || 1.
quantityOf_or(line) == Or(line.quantity, Num(1))

\* Mutant of quantityOf: line.quantity, with no default.
quantityOf_verbatim(line) == line.quantity

\* line.quantity ?? 1
quantityOf(line) == Coalesce(line.quantity, Num(1))

\* Mutant of expandedCartItems: the items come out in reverse order.
expandedCartItems_reversed(line, ids) ==
  [k \in 1..Len(ids) |->
     [merchandiseId |-> ids[Len(ids) + 1 - k],
      quantity |-> Coalesce(line.quantity, Num(1))]]

\* componentVariantIds.map(variantId => ({merchandiseId, quantity}))
expandedCartItems(line, ids) ==
  [k \in 1..Len(ids) |-> [merchandiseId |-> ids[k], quantity |-> quantityOf(line)]]

\* Mutant of push: operations.unshift(...).
push_front(operations, line, items) ==
  <<[lineExpand |-> [cartLineId |-> line.id, expandedCartItems |-> items]]>>
    \o operations

\* operations.push({lineExpand: {cartLineId: line.id, expandedCartItems}})
push(operations, line, items) ==
  Append(operations,
         [lineExpand |-> [cartLineId |-> line.id, expandedCartItems |-> items]])

\* if (componentVariantIds.length === 0) continue; ...; operations.push(...)
expand(operations, line, ids) ==
  IF Len(ids) = 0 THEN operations
  ELSE push(operations, line, expandedCartItems(line, ids))

\* The statements after the call of normalizeVariantIds.
expandAfter(operations, line, outcome) ==
  IF outcome.threw THEN Thrown
  ELSE Returned(expand(operations, line, outcome.val))

\* One iteration of the for loop on `line`, from the operations so far.
iteration(operations, line) ==
  IF notProductVariant(line.merchandise) THEN Returned(operations)
  ELSE IF notBundleRefs(line.merchandise.bundleRefs) THEN Returned(operations)
  ELSE expandAfter(operations, line,
                   normalizeVariantIds(line.merchandise.bundleRefs))

\* input.cart.lines ?? []
linesOf(inp) == Coalesce(inp.cart.lines, Arr(<<>>)).a

\* for (const line of lines): the first exception leaves the function.
RECURSIVE forLines(_, _, _)
RECURSIVE nextLine(_, _, _)

forLines(lines, k, operations) ==
  IF k > Len(lines) THEN Returned(operations)
  ELSE nextLine(lines, k, iteration(operations, lines[k]))

nextLine(lines, k, outcome) ==
  IF outcome.threw THEN Thrown ELSE forLines(lines, k + 1, outcome.val)

\* return { operations }, or the exception.
resultOf(outcome) ==
  [threw |-> outcome.threw, operations |-> outcome.val]

\* Mutant of newOperations: one array, kept by the module, that every call
\* goes on filling.
newOperations_shared == result.operations

\* const operations = []: a new array in every call.
newOperations == <<>>

\* cartTransformRun(input)
cartTransformRun(inp) == resultOf(forLines(linesOf(inp), 1, newOperations))

(***************************************************************************)
(* The input space: what the runtime can hand to cartTransformRun.         *)
(***************************************************************************)
SeqsUpTo(S, n) == UNION {[1..k -> S] : k \in 0..n}

\* Identifiers gid://shopify/ProductVariant/<digit>.
Gid(digit) == GidPrefix \o <<"shopify/ProductVariant/", digit>>

NotAGid == <<"n", "o", "t", "-", "a", "-", "g", "i", "d">>

\* The elements a jsonValue array is built from.
ElementValues ==
  { Str(Gid("1")), Str(Gid("2")), Str(NotAGid), Str(<<>>), Null, Num(5),
    Obj(<< <<IdKey, Str(Gid("1"))>> >>),
    Obj(<< <<GidKey, Str(Gid("2"))>> >>),
    Obj(<< <<IdKey, Str(<<>>)>>, <<GidKey, Str(Gid("2"))>> >>),
    Obj(<< <<IdKey, Num(42)>> >>),
    Obj(<<>>),
    Arr(<<Str(Gid("1"))>>) }

ArrayValues == {Arr(a) : a \in SeqsUpTo(ElementValues, MaxElems)}

\* The pieces a comma-separated string is built from.
PieceValues ==
  { Gid("1"), <<" ">> \o Gid("2"), <<" ">> \o Gid("9") \o <<" ">>,
    <<" ">> \o NotAGid, <<>> }

RECURSIVE joinPieces(_, _)
joinPieces(pieces, k) ==
  IF k > Len(pieces) THEN <<>>
  ELSE pieces[k]
       \o (IF k < Len(pieces) THEN <<",">> ELSE <<>>)
       \o joinPieces(pieces, k + 1)

CommaTexts ==
  {joinPieces(ps, 1) : ps \in SeqsUpTo(PieceValues, MaxPieces) \ {<<>>}}

ScalarValues == {Null, Bool(FALSE), Bool(TRUE), Num(0), Num(5), Obj(<<>>)}

\* mf.jsonValue when the runtime supplies one.
JsonValues == ScalarValues \cup ArrayValues \cup {Str(t) : t \in CommaTexts}

\* Texts that are no JSON document: a bare identifier, an array left open,
\* a trailing comma, an unquoted element, a cut literal, a leading zero, a
\* member without a value, a symbol after the document.
NoDocuments ==
  { Gid("9"), <<"[">>, <<"[", "\"">> \o Gid("1") \o <<"\"", ",", "]">>,
    <<"[">> \o Gid("1") \o <<"]">>, <<"n", "u", "l">>, <<"0", "1">>,
    <<"{", "\"", "i", "d", "\"", "}">>, <<"[", "]", "x">> }

\* A document with white space around its tokens.
PaddedDocument ==
  <<" ", "[", " ", "\"">> \o Gid("9") \o <<"\"", " ", "]", " ">>

OddTexts == NoDocuments \cup {PaddedDocument}

\* mf.value: absent, not a string, or a text.
ValueTexts == {stringify(j) : j \in JsonValues} \cup CommaTexts \cup OddTexts

Values == {Undefined, Num(7)} \cup {Str(t) : t \in ValueTexts}

Metafield(type, jsonValue, value) ==
  [t |-> "object", type |-> type, jsonValue |-> jsonValue, value |-> value]

\* The jsonValues that the fallback test !raw lets through, and the others.
FallbackJsonValues == {x \in JsonValues \cup {Undefined} : ~Truthy(x)}

PresentJsonValues == {x \in JsonValues : Truthy(x)}

\* The values tried under a jsonValue that the fallback test stops.
ShadowedValues == {Undefined, Str(stringify(Arr(<<Str(Gid("9"))>>)))}

OtherTypes ==
  { "list.product_reference", "variant_reference",
    "list.variant_reference.v2", "LIST.VARIANT_REFERENCE", "" }

TwoGids == Arr(<<Str(Gid("1")), Str(Gid("2"))>>)

OtherMetafields ==
  {Metafield(type, j, v) :
     type \in OtherTypes,
     j \in {Undefined, TwoGids, Str(Gid("9"))},
     v \in {Undefined, Str(stringify(TwoGids))}}

Merchandise(typename, bundleRefs) ==
  [t |-> "object", typename |-> typename, bundleRefs |-> bundleRefs]

Quantities == {Undefined, Null, Num(0), Num(-1), Num(1), Num(3), Str(<<"x">>)}

\* A line before its place in the cart gives it its id.
Shape(quantity, merchandise) ==
  [quantity |-> quantity, merchandise |-> merchandise]

\* The line of a cart of one line.
WideShape(mf) == Shape(Num(3), Merchandise("ProductVariant", mf))

\* The shapes of the lines of a longer cart.
NarrowMetafields ==
  { Undefined, Null,
    Metafield(ExpectedType, TwoGids, Undefined),
    Metafield(ExpectedType, Arr(<<Null, Obj(<<>>)>>), Undefined),
    Metafield(ExpectedType, Undefined,
              Str(stringify(Arr(<<Obj(<< <<IdKey, Str(Gid("9"))>> >>)>>)))),
    Metafield("list.product_reference", TwoGids, Undefined) }

NarrowShapes ==
  {Shape(Num(2), m) :
     m \in {Undefined, Null, Merchandise("CustomProduct", Undefined),
            Merchandise("CustomProduct",
                        Metafield(ExpectedType, TwoGids, Undefined))}}
  \cup
  {Shape(Num(2), Merchandise("ProductVariant", mf)) : mf \in NarrowMetafields}
  \cup
  {Shape(q, Merchandise("ProductVariant",
                        Metafield(ExpectedType, TwoGids, Undefined))) :
     q \in Quantities}

\* The cart line at place k: its id is unique in the cart.
LineAt(shape, k) ==
  [id |-> k, quantity |-> shape.quantity, merchandise |-> shape.merchandise]

CartOf(shapes) ==
  [cart |-> [lines |-> Arr([k \in 1..Len(shapes) |-> LineAt(shapes[k], k)])]]

\* The carts: no lines; one line, over every value under a jsonValue that
\* the fallback test lets through, two values under every other jsonValue, and
\* the metafields of another type; up to MaxLines lines of the narrow shapes.
IsInput(inp) ==
  \/ \E absent \in {Undefined, Null} : inp = [cart |-> [lines |-> absent]]
  \/ \E j \in FallbackJsonValues, v \in Values :
       inp = CartOf(<<WideShape(Metafield(ExpectedType, j, v))>>)
  \/ \E j \in PresentJsonValues, v \in ShadowedValues :
       inp = CartOf(<<WideShape(Metafield(ExpectedType, j, v))>>)
  \/ \E mf \in OtherMetafields : inp = CartOf(<<WideShape(mf)>>)
  \/ \E shapes \in SeqsUpTo(NarrowShapes, MaxLines) : inp = CartOf(shapes)

(***************************************************************************)
(* The runtime calls cartTransformRun on a cart snapshot.                  *)
(***************************************************************************)
NoResult == [threw |-> FALSE, operations |-> <<>>]

Init ==
  /\ IsInput(input)
  /\ pc = "ready"
  /\ result = NoResult
  /\ calls = <<>>
  /\ NoPage
  /\ NoSubmission

Invoke ==
  /\ pc = "ready"
  /\ result' = cartTransformRun(input)
  /\ pc' = "done"
  /\ UNCHANGED <<input, calls, buttonVars, adminVars>>

Next == Invoke

Spec == Init /\ [][Next]_vars

(***************************************************************************)
(* The runtime calls cartTransformRun again and again, on one snapshot     *)
(* after another; calls records, per call, the snapshot given, the         *)
(* snapshot as the call left it and the result.                            *)
(***************************************************************************)
BundleLine(quantity, jsonValue, value) ==
  Shape(quantity,
        Merchandise("ProductVariant", Metafield(ExpectedType, jsonValue, value)))

RunCarts ==
  { CartOf(<<>>),
    CartOf(<<BundleLine(Num(2), TwoGids, Undefined)>>),
    CartOf(<<BundleLine(Num(1), Undefined,
                        Str(stringify(Arr(<<Str(Gid("9"))>>))))>>),
    CartOf(<<Shape(Num(1), Merchandise("CustomProduct", Undefined)),
             BundleLine(Undefined, Arr(<<Str(Gid("1"))>>), Undefined)>>),
    CartOf(<<BundleLine(Num(3), Undefined, Str(Gid("9")))>>) }

InitRuns ==
  /\ input \in RunCarts
  /\ pc = "ready"
  /\ result = NoResult
  /\ calls = <<>>
  /\ NoPage
  /\ NoSubmission

\* One call, recorded.
InvokeRecorded ==
  /\ pc = "ready"
  /\ result' = cartTransformRun(input)
  /\ pc' = "done"
  /\ UNCHANGED <<input, buttonVars, adminVars>>
  /\ calls' = Append(calls, [given |-> input, left |-> input',
                             returned |-> result'])

\* The runtime hands over the next snapshot.
NextSnapshot ==
  /\ pc = "done"
  /\ Len(calls) < MaxCalls
  /\ \E inp \in RunCarts : input' = inp
  /\ pc' = "ready"
  /\ UNCHANGED <<result, calls, buttonVars, adminVars>>

NextRuns == InvokeRecorded \/ NextSnapshot

SpecRuns == InitRuns /\ [][NextRuns]_vars

(***************************************************************************)
(* Vocabulary of the properties.                                           *)
(***************************************************************************)
Done == pc = "done"

\* The lines of the input cart; line k has id k.
CartLines ==
  IF input.cart.lines.t = "array" THEN input.cart.lines.a ELSE <<>>

Places == 1..Len(CartLines)

Operations == result.operations

\* The operations that carry the id of line k.
OperationsOf(k) ==
  {o \in 1..Len(Operations) : Operations[o].lineExpand.cartLineId = k}

ItemsOf(o) == Operations[o].lineExpand.expandedCartItems

IsProductVariant(line) ==
  line.merchandise.t = "object" /\ line.merchandise.typename = "ProductVariant"

HasBundleRefs(line) ==
  IsProductVariant(line) /\ line.merchandise.bundleRefs.t = "object"

HasExpectedType(line) ==
  HasBundleRefs(line) /\ line.merchandise.bundleRefs.type = "list.variant_reference"

\* The identifiers the line's metafield resolves to.
ResolvedIds(line) == normalizeVariantIds(line.merchandise.bundleRefs).val

Qualifies(line) == HasExpectedType(line) /\ Len(ResolvedIds(line)) >= 1

HasSymbol(s, symbols) == \E k \in 1..Len(s) : s[k] \in symbols

\* One identifier, written as it is: no quote, comma or white space.
IsBareIdentifier(s) ==
  startsWith(s, GidPrefix) /\ ~HasSymbol(s, {"\"", ",", " "})

\* The merchandiseId of each item of operation o, in order.
MerchandiseIds(o) ==
  [i \in 1..Len(ItemsOf(o)) |-> ItemsOf(o)[i].merchandiseId]

(***************************************************************************)
(* C1. A product-variant line whose bundleRefs metafield has the expected  *)
(* type, no jsonValue and a value that is one bare identifier (not         *)
(* JSON-encoded) yields exactly one lineExpand operation, whose only       *)
(* expanded item is that identifier.                                       *)
(***************************************************************************)
C1_BareIdentifierExpands ==
  Done =>
    \A k \in Places :
      LET line == CartLines[k]
      IN (/\ HasExpectedType(line)
          /\ line.merchandise.bundleRefs.jsonValue = Undefined
          /\ IsString(line.merchandise.bundleRefs.value)
          /\ IsBareIdentifier(line.merchandise.bundleRefs.value.s))
         => /\ ~result.threw
            /\ Cardinality(OperationsOf(k)) = 1
            /\ \A o \in OperationsOf(k) :
                 MerchandiseIds(o) = <<line.merchandise.bundleRefs.value>>

(***************************************************************************)
(* C2. A string of comma-separated pieces resolves to exactly its trimmed  *)
(* pieces that begin with gid://, in order, also when its first piece      *)
(* begins with gid://: the line's operation expands to those identifiers,  *)
(* and there is no operation when no piece begins with gid://.             *)
(***************************************************************************)
C2_CommaSeparatedPieces ==
  Done =>
    \A k \in Places :
      LET line == CartLines[k]
          mf == line.merchandise.bundleRefs
      IN (HasExpectedType(line) /\ IsString(mf.jsonValue) /\ Truthy(mf.jsonValue))
         => LET pieces == trimmedGids(mf.jsonValue.s)
            IN IF Len(pieces) = 0 THEN OperationsOf(k) = {}
               ELSE /\ Cardinality(OperationsOf(k)) = 1
                    /\ \A o \in OperationsOf(k) : MerchandiseIds(o) = pieces

(***************************************************************************)
(* C3. cartTransformRun never throws, whatever a line's bundleRefs         *)
(* metafield holds, and each line yields either no operation or one        *)
(* complete operation: one item per resolved identifier, at least one,     *)
(* each with a merchandiseId and a quantity.                               *)
(***************************************************************************)
C3_NeverThrows ==
  Done =>
    /\ ~result.threw
    /\ \A k \in Places :
         \/ OperationsOf(k) = {}
         \/ /\ Cardinality(OperationsOf(k)) = 1
            /\ \A o \in OperationsOf(k) :
                 /\ Len(ItemsOf(o)) = Len(ResolvedIds(CartLines[k]))
                 /\ Len(ItemsOf(o)) >= 1
                 /\ \A i \in 1..Len(ItemsOf(o)) :
                      /\ Truthy(ItemsOf(o)[i].merchandiseId)
                      /\ ~IsNullish(ItemsOf(o)[i].quantity)

\* A call has returned on a line whose metafield has no jsonValue and a value
\* that is no JSON document.
C3_Witness ==
  /\ Done
  /\ \E k \in Places :
       LET mf == CartLines[k].merchandise.bundleRefs
       IN /\ HasExpectedType(CartLines[k])
          /\ mf.jsonValue = Undefined
          /\ IsString(mf.value)
          /\ ~JSONparse(mf.value.s).ok
  /\ ~result.threw

(***************************************************************************)
(* C4. No operation carries the id of a line whose merchandise is absent   *)
(* or not a ProductVariant, whose bundleRefs metafield is absent, whose    *)
(* metafield type is not exactly list.variant_reference, or whose          *)
(* metafield resolves to zero identifiers.                                 *)
(***************************************************************************)
C4_SkippedLinesYieldNothing ==
  Done =>
    \A k \in Places :
      LET line == CartLines[k]
      IN (\/ ~IsProductVariant(line)
          \/ ~HasBundleRefs(line)
          \/ line.merchandise.bundleRefs.type # "list.variant_reference"
          \/ Len(ResolvedIds(line)) = 0)
         => OperationsOf(k) = {}

\* A line of another type that holds a valid identifier list was skipped, in a
\* cart whose other line was expanded.
C4_Witness ==
  /\ Done
  /\ Len(Operations) >= 1
  /\ \E k \in Places :
       /\ HasBundleRefs(CartLines[k])
       /\ CartLines[k].merchandise.bundleRefs.type # "list.variant_reference"
       /\ Len(ResolvedIds(CartLines[k])) >= 1
       /\ OperationsOf(k) = {}

(***************************************************************************)
(* C5. A qualifying line with n >= 1 resolved identifiers and quantity q   *)
(* yields exactly one operation: it carries the line's id and n items, the *)
(* i-th with the i-th resolved identifier, each with quantity q.           *)
(***************************************************************************)
C5_OneOperationPerQualifyingLine ==
  Done =>
    \A k \in Places :
      LET line == CartLines[k]
          ids == ResolvedIds(line)
      IN (Qualifies(line) /\ ~IsNullish(line.quantity))
         => /\ Cardinality(OperationsOf(k)) = 1
            /\ \A o \in OperationsOf(k) :
                 ItemsOf(o) =
                   [i \in 1..Len(ids) |->
                      [merchandiseId |-> ids[i], quantity |-> line.quantity]]

\* Two identifiers and quantity 3: one operation of two items of quantity 3.
C5_Witness ==
  /\ Done
  /\ \E k \in Places :
       /\ Qualifies(CartLines[k])
       /\ CartLines[k].quantity = Num(3)
       /\ ResolvedIds(CartLines[k]) = <<Str(Gid("1")), Str(Gid("2"))>>
       /\ \E o \in OperationsOf(k) :
            /\ Len(ItemsOf(o)) = 2
            /\ ItemsOf(o)[1].quantity = Num(3)
            /\ ItemsOf(o)[2].quantity = Num(3)

(***************************************************************************)
(* C6. The ids the operations carry, in order, are the ids of the          *)
(* qualifying lines in the order of the cart.                              *)
(***************************************************************************)
QualifyingPlaces ==
  SelectSeq([k \in Places |-> k], LAMBDA k : Qualifies(CartLines[k]))

C6_OperationsInLineOrder ==
  Done =>
    [o \in 1..Len(Operations) |-> Operations[o].lineExpand.cartLineId]
      = QualifyingPlaces

\* Two lines were expanded.
C6_Witness ==
  /\ Done
  /\ Len(Operations) >= 2
  /\ Operations[1].lineExpand.cartLineId # Operations[2].lineExpand.cartLineId

(***************************************************************************)
(* C7. As claimed: every expanded item carries the line's quantity when    *)
(* that is a positive integer and 1 for every other quantity (absent,      *)
(* null, 0, negative, not a number).                                       *)
(***************************************************************************)
IsPositiveInteger(q) == q.t = "number" /\ q.n > 0

C7_QuantityPositiveOrOne ==
  Done =>
    \A o \in 1..Len(Operations) :
      \A i \in 1..Len(ItemsOf(o)) :
        LET q == CartLines[Operations[o].lineExpand.cartLineId].quantity
        IN ItemsOf(o)[i].quantity = IF IsPositiveInteger(q) THEN q ELSE Num(1)

(***************************************************************************)
(* C7, amended. Every expanded item carries the line's quantity as it is   *)
(* whenever the line has one (0, a negative number and a non-number        *)
(* included), and 1 only when the quantity is undefined or null; so an     *)
(* item's quantity is a positive integer when the line's quantity is one   *)
(* or is missing.                                                          *)
(***************************************************************************)
C7_QuantityVerbatimOrOne ==
  Done =>
    \A o \in 1..Len(Operations) :
      \A i \in 1..Len(ItemsOf(o)) :
        LET q == CartLines[Operations[o].lineExpand.cartLineId].quantity
        IN /\ ItemsOf(o)[i].quantity = IF IsNullish(q) THEN Num(1) ELSE q
           /\ (IsPositiveInteger(q) \/ IsNullish(q))
                => IsPositiveInteger(ItemsOf(o)[i].quantity)

\* A line of quantity 0 was expanded into items of quantity 0.
C7_Witness ==
  /\ Done
  /\ \E o \in 1..Len(Operations) :
       /\ CartLines[Operations[o].lineExpand.cartLineId].quantity = Num(0)
       /\ ItemsOf(o)[1].quantity = Num(0)

(***************************************************************************)
(* C8. A qualifying line whose quantity is missing (undefined or null) is  *)
(* expanded, and every expanded item has quantity 1.                       *)
(***************************************************************************)
C8_MissingQuantityIsOne ==
  Done =>
    \A k \in Places :
      (Qualifies(CartLines[k]) /\ IsNullish(CartLines[k].quantity))
        => /\ OperationsOf(k) # {}
           /\ \A o \in OperationsOf(k) :
                \A i \in 1..Len(ItemsOf(o)) : ItemsOf(o)[i].quantity = Num(1)

\* A line of quantity null was expanded.
C8_Witness ==
  /\ Done
  /\ \E k \in Places :
       /\ CartLines[k].quantity = Null
       /\ \E o \in OperationsOf(k) : ItemsOf(o)[1].quantity = Num(1)

(***************************************************************************)
(* C9. Every merchandiseId of every expanded item is a non-empty string,   *)
(* and no operation has an empty list of expanded items.                   *)
(***************************************************************************)
C9_IdentifiersAreNonEmptyStrings ==
  Done =>
    \A o \in 1..Len(Operations) :
      /\ Len(ItemsOf(o)) >= 1
      /\ \A i \in 1..Len(ItemsOf(o)) :
           /\ IsString(ItemsOf(o)[i].merchandiseId)
           /\ Len(ItemsOf(o)[i].merchandiseId.s) > 0

(***************************************************************************)
(* C10. A cart whose lines are absent (undefined or null), empty, or hold  *)
(* no ProductVariant merchandise yields a result with no operation.        *)
(***************************************************************************)
C10_NoProductVariantNoOperations ==
  (Done /\ \A k \in Places : ~IsProductVariant(CartLines[k]))
    => ~result.threw /\ Operations = <<>>

\* A cart of lines of another merchandise type, one of them with a bundle
\* metafield, gave no operation.
C10_Witness ==
  /\ Done
  /\ Len(CartLines) >= 1
  /\ \A k \in Places : ~IsProductVariant(CartLines[k])
  /\ \E k \in Places :
       /\ CartLines[k].merchandise.t = "object"
       /\ CartLines[k].merchandise.bundleRefs.t = "object"
  /\ Operations = <<>>

(***************************************************************************)
(* C12. As claimed: when the resolved raw value is an array, the line's    *)
(* identifiers are, in array order, what the elements contribute after the *)
(* falsy contributions are dropped: a string element contributes itself,   *)
(* any other element its id member, or its gid member when id is absent    *)
(* (undefined or null), or nothing when both are absent.                   *)
(***************************************************************************)
\* The raw value the line's metafield resolves to.
RawValue(line) == rawOf(line.merchandise.bundleRefs).val

HasArrayRaw(line) == HasExpectedType(line) /\ RawValue(line).t = "array"

\* The line has no operation when ids is empty, and otherwise one operation
\* whose items carry ids in order.
ExpandsTo(k, ids) ==
  IF ids = <<>> THEN OperationsOf(k) = {}
  ELSE /\ Cardinality(OperationsOf(k)) = 1
       /\ \A o \in OperationsOf(k) : MerchandiseIds(o) = ids

ContributionIfAbsent(item) ==
  IF IsString(item) THEN item
  ELSE IF ~IsNullish(OptGet(item, IdKey)) THEN OptGet(item, IdKey)
  ELSE OptGet(item, GidKey)

C12_GidWhenIdAbsent ==
  Done =>
    \A k \in Places :
      HasArrayRaw(CartLines[k])
      => ExpandsTo(k, SelectSeq([e \in 1..Len(RawValue(CartLines[k]).a) |->
                                   ContributionIfAbsent(RawValue(CartLines[k]).a[e])],
                                Truthy))

(***************************************************************************)
(* C12. As the code has it: an element that is not a string contributes    *)
(* its id member when that is truthy, otherwise its gid member when that   *)
(* is truthy, otherwise nothing; so an id that is present but falsy (the   *)
(* empty string, 0, false) gives way to gid.  String elements contribute   *)
(* themselves, falsy contributions are dropped, array order is kept.       *)
(***************************************************************************)
ContributionIfFalsy(item) ==
  IF IsString(item) THEN item
  ELSE IF Truthy(OptGet(item, IdKey)) THEN OptGet(item, IdKey)
  ELSE OptGet(item, GidKey)

C12_GidWhenIdFalsy ==
  Done =>
    \A k \in Places :
      HasArrayRaw(CartLines[k])
      => ExpandsTo(k, SelectSeq([e \in 1..Len(RawValue(CartLines[k]).a) |->
                                   ContributionIfFalsy(RawValue(CartLines[k]).a[e])],
                                Truthy))

\* A bare string and an object whose id is empty and whose gid is an
\* identifier resolved to two identifiers, in array order.
C12_Witness ==
  /\ Done
  /\ \E k \in Places :
       /\ HasArrayRaw(CartLines[k])
       /\ RawValue(CartLines[k]).a =
            << Str(Gid("1")),
               Obj(<< <<IdKey, Str(<<>>)>>, <<GidKey, Str(Gid("2"))>> >>) >>
       /\ \E o \in OperationsOf(k) :
            MerchandiseIds(o) = <<Str(Gid("1")), Str(Gid("2"))>>

(***************************************************************************)
(* C13. As claimed: whenever the metafield has a jsonValue (any value      *)
(* other than undefined and null: the empty string, 0, false and the empty *)
(* array included), the line's identifiers are those of jsonValue alone,   *)
(* whatever value holds.                                                   *)
(***************************************************************************)
JsonValueOf(line) == line.merchandise.bundleRefs.jsonValue

ValueOf(line) == line.merchandise.bundleRefs.value

C13_PresentJsonValueAlone ==
  Done =>
    \A k \in Places :
      (HasExpectedType(CartLines[k]) /\ ~IsNullish(JsonValueOf(CartLines[k])))
      => ExpandsTo(k, idsOf(JsonValueOf(CartLines[k])))

(***************************************************************************)
(* C13. As the code has it: whenever jsonValue is truthy (the empty array  *)
(* included; the empty string, 0 and false excluded), the line's           *)
(* identifiers are those of jsonValue alone, whatever value holds.         *)
(***************************************************************************)
C13_TruthyJsonValueAlone ==
  Done =>
    \A k \in Places :
      (HasExpectedType(CartLines[k]) /\ Truthy(JsonValueOf(CartLines[k])))
      => ExpandsTo(k, idsOf(JsonValueOf(CartLines[k])))

\* An empty array as jsonValue beside a value that encodes an identifier:
\* the line was not expanded.
C13_Witness ==
  /\ Done
  /\ \E k \in Places :
       /\ HasExpectedType(CartLines[k])
       /\ JsonValueOf(CartLines[k]) = Arr(<<>>)
       /\ IsString(ValueOf(CartLines[k]))
       /\ JSONparse(ValueOf(CartLines[k]).s).ok
       /\ idsOf(JSONparse(ValueOf(CartLines[k]).s).v) # <<>>
       /\ OperationsOf(k) = {}

(***************************************************************************)
(* C14. No exception leaves the function, and a line whose metafield has   *)
(* no jsonValue (undefined or null) and a string value that is not valid   *)
(* JSON resolves to no identifier: the line produces no operation.         *)
(***************************************************************************)
\* The comma-separated texts are no JSON documents either: none of them
\* holds a quote, a bracket or a digit outside an identifier.
HasInvalidValueOnly(line) ==
  /\ HasExpectedType(line)
  /\ IsNullish(JsonValueOf(line))
  /\ IsString(ValueOf(line))
  /\ ValueOf(line).s \in NoDocuments \cup CommaTexts

C14_ParseFailureYieldsNothing ==
  Done =>
    /\ ~result.threw
    /\ \A k \in Places :
         HasInvalidValueOnly(CartLines[k])
         => /\ ResolvedIds(CartLines[k]) = <<>>
            /\ OperationsOf(k) = {}

\* A value that opens an array and never closes it: no operation, no
\* exception.
C14_Witness ==
  /\ Done
  /\ ~result.threw
  /\ \E k \in Places :
       /\ HasInvalidValueOnly(CartLines[k])
       /\ ValueOf(CartLines[k]) = Str(<<"[">>)
       /\ OperationsOf(k) = {}

(***************************************************************************)
(* C15. When the resolved raw value is a string, the line's identifiers    *)
(* are the whole string alone when it begins with gid://, and otherwise    *)
(* its comma-separated pieces, trimmed, that begin with gid://, in order.  *)
(***************************************************************************)
HasStringRaw(line) == HasExpectedType(line) /\ IsString(RawValue(line))

\* The pieces, trimmed, that begin with gid://, as JavaScript strings.
KeptPieces(pieces) ==
  SelectSeq([p \in 1..Len(pieces) |-> Str(trim(pieces[p]))],
            LAMBDA piece : startsWith(piece.s, GidPrefix))

\* The places of the commas of s, and the place of the i-th of them; the
\* 0-th is before the string and the one after the last is past its end.
Commas(s) == {c \in 1..Len(s) : s[c] = ","}

CommaAt(s, i) ==
  IF i = 0 THEN 0
  ELSE IF i > Cardinality(Commas(s)) THEN Len(s) + 1
  ELSE CHOOSE c \in Commas(s) :
         Cardinality({d \in Commas(s) : d < c}) = i - 1

\* The pieces of s: what stands between one comma and the next.
PiecesOf(s) ==
  [i \in 1..(Cardinality(Commas(s)) + 1) |->
     SubSeq(s, CommaAt(s, i - 1) + 1, CommaAt(s, i) - 1)]

C15_WitnessWhole ==
  /\ Done
  /\ \E k \in Places :
       /\ HasStringRaw(CartLines[k])
       /\ RawValue(CartLines[k]).s =
            joinPieces(<<Gid("1"), <<" ">> \o Gid("2")>>, 1)
       /\ \E o \in OperationsOf(k) :
            MerchandiseIds(o) = <<RawValue(CartLines[k])>>

NaN == [nan |-> TRUE, n |-> 0]

Integer(n) == [nan |-> FALSE, n |-> n]

signAt(s, p) == IF p <= Len(s) /\ s[p] \in {"-", "+"} THEN p + 1 ELSE p

negativeAt(s, p) == p <= Len(s) /\ s[p] = "-"

digitsFrom(s, p, q) ==
  IF scanDigits(s, q, 0).p = q THEN NaN
  ELSE Integer(IF negativeAt(s, p) THEN 0 - scanDigits(s, q, 0).n
               ELSE scanDigits(s, q, 0).n)

parseInt(s) == digitsFrom(s, skipWs(s, 1), signAt(s, skipWs(s, 1)))

\* Number.isInteger(n) && n > 0, and Number.isFinite(q) && q > 0: parseInt
\* returns an integer or NaN.
isPositive(r) == ~r.nan /\ r.n > 0

\* csv.split(',').map(s => parseInt(s.trim(), 10))
parsedPieces(pieces) == [k \in 1..Len(pieces) |-> parseInt(trim(pieces[k]))]

numbersOf(parsed) == [k \in 1..Len(parsed) |-> parsed[k].n]

\* parseIds(csv)
parseIds(csv) ==
  IF ~Truthy(csv) THEN <<>>
  ELSE numbersOf(SelectSeq(parsedPieces(split(csv.s)), isPositive))

\* parseIds(btn.dataset.variantIds)
idsOf_block(b) == parseIds(blocks[b].variantIds)

DefaultSelector == Str(<<"[name='quantity']">>)

\* A selector that querySelector rejects with a SyntaxError.
BadSelector == Str(<<"[[">>)

\* const qtySel = btn.dataset.parentQtySelector || "[name='quantity']"
qtySel(b) == Or(blocks[b].parentQtySelector, DefaultSelector)

\* String(btn.dataset.redirect || "false") === "true"
redirect(b) ==
  Or(blocks[b].redirect, Str(<<"f", "a", "l", "s", "e">>))
    = Str(<<"t", "r", "u", "e">>)

\* let parentQty = 1; if (input && input.value) { const q = parseInt(...);
\* if (Number.isFinite(q) && q > 0) parentQty = q; }
parentQtyOf(found) ==
  IF Truthy(found) /\ isPositive(parseInt(found.s)) THEN parseInt(found.s).n
  ELSE 1

\* variantIds.map(id => ({ id, quantity: parentQty > 0 ? parentQty : 1 }))
itemsOf(variantIds, parentQty) ==
  [k \in 1..Len(variantIds) |->
     [id |-> variantIds[k],
      quantity |-> IF parentQty > 0 THEN parentQty ELSE 1]]

\* Mutant of alreadyBound: the _bundleBound flag is never consulted.
alreadyBound_never(b) == FALSE

\* if (btn._bundleBound) return;
alreadyBound(b) == bundleBound[b]

\* bind(el) goes past its two early returns.
binds(b) == blocks[b].hasButton /\ ~alreadyBound(b)

\* status.textContent = text, with status.hidden = false, if (status).
shown(b, text) ==
  IF blocks[b].hasStatus
  THEN [status EXCEPT ![b] = [hidden |-> FALSE, textContent |-> text]]
  ELSE status

\* status.textContent = text, if (status).
written(b, text) ==
  IF blocks[b].hasStatus
  THEN [status EXCEPT ![b].textContent = text]
  ELSE status

\* init(): bind(el) for every block of the page.
init ==
  /\ bundleBound' =
       [b \in DOMAIN blocks |-> IF binds(b) THEN TRUE ELSE bundleBound[b]]
  /\ boundIds' =
       [b \in DOMAIN blocks |->
          IF binds(b) THEN idsOf_block(b) ELSE boundIds[b]]
  /\ disabled' =
       [b \in DOMAIN blocks |->
          IF binds(b) /\ idsOf_block(b) = <<>> THEN TRUE ELSE disabled[b]]
  /\ status' =
       [b \in DOMAIN blocks |->
          IF binds(b) /\ idsOf_block(b) = <<>>
          THEN shown(b, "No components configured.")[b]
          ELSE status[b]]
  /\ listeners' =
       [b \in DOMAIN blocks |->
          IF binds(b) /\ idsOf_block(b) # <<>>
          THEN listeners[b] + 1
          ELSE listeners[b]]

Block(hasButton, variantIds, parentQtySelector, redirectAttr, hasStatus) ==
  [hasButton |-> hasButton, variantIds |-> variantIds,
   parentQtySelector |-> parentQtySelector, redirect |-> redirectAttr,
   hasStatus |-> hasStatus]

\* The blocks a page is made of: buttons with components, a block without
\* a button, buttons without components.
RedirectingBlock ==
  Block(TRUE, Str(<<"1", "2", ",", "7">>), Undefined,
        Str(<<"t", "r", "u", "e">>), TRUE)

PlainBlock ==
  Block(TRUE, Str(<<" ", "7", " ", ",", "x", ",", "0", ",", "-", "3">>),
        Str(<<>>), Undefined, TRUE)

BadSelectorBlock ==
  Block(TRUE, Str(<<"3", "x", ",", "+", "4", ".", "5">>), BadSelector,
        Str(<<"t", "r", "u", "e">>), TRUE)

NoStatusBlock ==
  Block(TRUE, Str(<<"7">>), Undefined, Str(<<"T", "R", "U", "E">>), FALSE)

NoButtonBlock == Block(FALSE, Undefined, Undefined, Undefined, TRUE)

NoComponentsBlocks ==
  { Block(TRUE, csv, Undefined, Str(<<"t", "r", "u", "e">>), TRUE) :
      csv \in {Undefined, Str(<<"0", ",", "-", "5", ",", ",">>)} }
  \cup
  { Block(TRUE, csv, Undefined, Str(<<"t", "r", "u", "e">>), FALSE) :
      csv \in {Str(<<>>), Str(<<"a", "b", "c">>)} }

BlockKinds ==
  { RedirectingBlock, PlainBlock, BadSelectorBlock, NoStatusBlock,
    NoButtonBlock }
  \cup NoComponentsBlocks

\* The pages: one block of any kind, or two blocks.
Pages ==
  {<<kind>> : kind \in BlockKinds}
  \cup {<<RedirectingBlock, PlainBlock>>, <<NoButtonBlock, RedirectingBlock>>}
  \cup {<<kind, PlainBlock>> : kind \in NoComponentsBlocks}

\* What querySelector(qtySel) finds at a click: no element, or the quantity
\* input with the value the visitor left in it.
QuantityInputs ==
  { Null, Str(<<>>), Str(<<"2">>), Str(<<"0">>), Str(<<"x">>),
    Str(<<"-", "2">>) }

NoStatus == [hidden |-> TRUE, textContent |-> ""]

\* The cart transform is not called.
NoCart ==
  /\ input = [cart |-> [lines |-> Null]]
  /\ pc = "none"
  /\ result = NoResult
  /\ calls = <<>>

\* The page is parsed or being parsed, and the script has not run yet.
InitButton ==
  /\ readyState \in {"loading", "interactive"}
  /\ registered = {}
  /\ lastEvent = "none"
  /\ blocks \in Pages
  /\ bundleBound = [b \in DOMAIN blocks |-> FALSE]
  /\ boundIds = [b \in DOMAIN blocks |-> <<>>]
  /\ listeners = [b \in DOMAIN blocks |-> 0]
  /\ disabled = [b \in DOMAIN blocks |-> FALSE]
  /\ status = [b \in DOMAIN blocks |-> NoStatus]
  /\ handlers = <<>>
  /\ requests = <<>>
  /\ events = <<>>
  /\ location = "/products/bundle"
  /\ clicks = 0
  /\ NoCart
  /\ NoSubmission

pageVars == <<readyState, lastEvent, blocks, location>>

bindVars == <<bundleBound, boundIds, listeners, disabled, status>>

flightVars == <<handlers, requests, events, clicks>>

\* The script runs: init now, or at DOMContentLoaded while the document is
\* loading; init at every section load and select of the theme editor.
Script ==
  /\ registered = {}
  /\ IF readyState = "loading"
     THEN /\ registered' = {"DOMContentLoaded", "shopify:section:load",
                            "shopify:section:select"}
          /\ UNCHANGED bindVars
     ELSE /\ registered' = {"shopify:section:load", "shopify:section:select"}
          /\ init
  /\ UNCHANGED <<pageVars, flightVars, cartVars, adminVars>>

DOMContentLoaded ==
  /\ readyState = "loading"
  /\ readyState' = "interactive"
  /\ lastEvent' = "DOMContentLoaded"
  /\ IF "DOMContentLoaded" \in registered THEN init ELSE UNCHANGED bindVars
  /\ UNCHANGED <<registered, blocks, location, flightVars, cartVars, adminVars>>

SectionLoad ==
  /\ "shopify:section:load" \in registered
  /\ lastEvent' = "shopify:section:load"
  /\ init
  /\ UNCHANGED <<registered, readyState, blocks, location, flightVars,
                 cartVars, adminVars>>

SectionSelect ==
  /\ "shopify:section:select" \in registered
  /\ lastEvent' = "shopify:section:select"
  /\ init
  /\ UNCHANGED <<registered, readyState, blocks, location, flightVars,
                 cartVars, adminVars>>

\* The handler up to its await, once per listener: the request sent and the
\* handler suspended on it.
requestOf(b, click, parentQty) ==
  [block |-> b, click |-> click,
   items |-> itemsOf(boundIds[b], parentQty), response |-> "pending"]

handlerOf(b, click, parentQty, request) ==
  [block |-> b, click |-> click, parentQty |-> parentQty,
   request |-> request, at |-> "fetch"]

\* Every click listener of the button, up to its await.
runListeners(b) ==
  IF qtySel(b) = BadSelector
  THEN /\ status' = shown(b, "Error adding items.")
       /\ disabled' = [disabled EXCEPT ![b] = FALSE]
       /\ UNCHANGED <<handlers, requests>>
  ELSE \E found \in QuantityInputs :
         /\ status' = shown(b, "Adding...")
         /\ disabled' = [disabled EXCEPT ![b] = TRUE]
         /\ requests' =
              requests \o [l \in 1..listeners[b] |->
                             requestOf(b, clicks', parentQtyOf(found))]
         /\ handlers' =
              handlers \o [l \in 1..listeners[b] |->
                             handlerOf(b, clicks', parentQtyOf(found),
                                       Len(requests) + l)]

\* A click on an enabled button runs every click listener of the button up to
\* its await; querySelector throws on a bad selector, and then catch and
\* finally run at once.  clicks counts the clicks that ran a listener.
Click(b) ==
  /\ blocks[b].hasButton
  /\ ~disabled[b]
  /\ clicks < MaxClicks
  /\ IF listeners[b] = 0
     THEN UNCHANGED <<clicks, disabled, status, handlers, requests>>
     ELSE /\ clicks' = clicks + 1
          /\ runListeners(b)
  /\ UNCHANGED <<registered, pageVars, bundleBound, boundIds, listeners,
                 events, cartVars, adminVars>>

without(h) == [k \in 1..(Len(handlers) - 1) |->
                 IF k < h THEN handlers[k] ELSE handlers[k + 1]]

\* Mutant of disabledAtLast: the button is enabled at the end of the try
\* block, not in a finally block.
disabledAtLast_tryOnly(added) == ~added

\* finally { btn.disabled = false }
disabledAtLast(added) == FALSE

\* catch: the status says so; finally.
fails(h) ==
  /\ status' = written(handlers[h].block, "Error adding items.")
  /\ disabled' = [disabled EXCEPT ![handlers[h].block] = disabledAtLast(FALSE)]
  /\ handlers' = without(h)
  /\ UNCHANGED <<events, location>>

\* After the await: the status, the event, the redirect; finally.
succeeds(h) ==
  /\ status' = written(handlers[h].block, "Added!")
  /\ events' =
       Append(events,
              [request |-> handlers[h].request,
               detail |-> [variantIds |-> boundIds[handlers[h].block],
                           quantity |-> handlers[h].parentQty]])
  /\ location' = IF redirect(handlers[h].block) THEN "/cart" ELSE location
  /\ disabled' = [disabled EXCEPT ![handlers[h].block] = disabledAtLast(TRUE)]
  /\ handlers' = without(h)

\* fetch rejects: addToCart rejects.
FetchRejects(h) ==
  /\ handlers[h].at = "fetch"
  /\ requests' = [requests EXCEPT ![handlers[h].request].response = "rejected"]
  /\ fails(h)
  /\ UNCHANGED <<registered, readyState, lastEvent, blocks, bundleBound,
                 boundIds, listeners, clicks, cartVars, adminVars>>

\* Mutant of notOk: a response that is not OK is read like an OK one.
notOk_never(ok) == FALSE

\* if (!res.ok)
notOk(ok) == ~ok

\* fetch resolves with a response: addToCart goes on to read its text when
\* it is not OK, and its JSON when it is.
FetchResolves(h) ==
  /\ handlers[h].at = "fetch"
  /\ \E ok \in BOOLEAN :
       /\ requests' =
            [requests EXCEPT ![handlers[h].request].response =
                               IF ok THEN "ok" ELSE "not ok"]
       /\ handlers' =
            [handlers EXCEPT ![h].at = IF notOk(ok) THEN "text" ELSE "json"]
  /\ UNCHANGED <<registered, pageVars, bindVars, events, clicks, cartVars, adminVars>>

\* res.text() settles (a rejection counts as ''): addToCart throws.
TextSettles(h) ==
  /\ handlers[h].at = "text"
  /\ fails(h)
  /\ UNCHANGED <<registered, readyState, lastEvent, blocks, bundleBound,
                 boundIds, listeners, requests, clicks, cartVars, adminVars>>

\* res.json() resolves: addToCart returns.
JsonResolves(h) ==
  /\ handlers[h].at = "json"
  /\ succeeds(h)
  /\ UNCHANGED <<registered, readyState, lastEvent, blocks, bundleBound,
                 boundIds, listeners, requests, clicks, cartVars, adminVars>>

\* res.json() rejects (the body is no JSON): addToCart rejects.
JsonRejects(h) ==
  /\ handlers[h].at = "json"
  /\ fails(h)
  /\ UNCHANGED <<registered, readyState, lastEvent, blocks, bundleBound,
                 boundIds, listeners, requests, clicks, cartVars, adminVars>>

Settles(h) ==
  /\ h \in DOMAIN handlers
  /\ \/ FetchRejects(h)
     \/ FetchResolves(h)
     \/ TextSettles(h)
     \/ JsonResolves(h)
     \/ JsonRejects(h)

NextButton ==
  \/ Script
  \/ DOMContentLoaded
  \/ SectionLoad
  \/ SectionSelect
  \/ \E b \in DOMAIN blocks : Click(b)
  \/ \E h \in DOMAIN handlers : Settles(h)

SpecButton == InitButton /\ [][NextButton]_vars

\* Every request settles and every promise read from its response settles.
SpecButtonFair ==
  SpecButton /\ WF_vars(\E h \in DOMAIN handlers : Settles(h))

(***************************************************************************)
(* Vocabulary of the properties of the add-bundle button.                  *)
(***************************************************************************)
\* The places a page has for blocks.
BlockPlaces == {1, 2}

OnPage(b) == b \in DOMAIN blocks

\* The click handlers of the button of block b that have not finished.
HandlersOf(b) == {h \in DOMAIN handlers : handlers[h].block = b}

\* The cart-add requests of block b.
RequestsOf(b) == {r \in DOMAIN requests : requests[r].block = b}

\* Those in flight.
PendingOf(b) == {r \in RequestsOf(b) : requests[r].response = "pending"}

HasListener(b) == listeners[b] >= 1

(***************************************************************************)
(* C16. While a click handler of a button has not finished, and so while   *)
(* its request is in flight, the button is disabled; a button has at most  *)
(* one handler running and one request in flight; a button with a click    *)
(* listener and no handler running is enabled, whether the last request    *)
(* succeeded, came back not OK or was rejected; and a button with a        *)
(* handler running is eventually enabled.                                  *)
(***************************************************************************)
C16_DisabledWhileInFlight ==
  \A b \in DOMAIN blocks :
    /\ HandlersOf(b) # {} => disabled[b]
    /\ PendingOf(b) # {} => HandlersOf(b) # {}
    /\ Cardinality(HandlersOf(b)) <= 1
    /\ Cardinality(PendingOf(b)) <= 1
    /\ (HasListener(b) /\ HandlersOf(b) = {}) => ~disabled[b]

C16_DisabledUntilSettledThenEnabled ==
  /\ []C16_DisabledWhileInFlight
  /\ \A b \in BlockPlaces :
       (OnPage(b) /\ HandlersOf(b) # {}) ~> (OnPage(b) /\ ~disabled[b])

\* A request was rejected, another came back not OK, and the button is
\* enabled again.
C16_Witness ==
  \E b \in DOMAIN blocks :
    /\ HasListener(b)
    /\ \E r \in RequestsOf(b) : requests[r].response = "rejected"
    /\ \E r \in RequestsOf(b) : requests[r].response = "not ok"
    /\ HandlersOf(b) = {}
    /\ ~disabled[b]

(***************************************************************************)
(* C17. Whatever document events have run init, a button has at most one   *)
(* click listener and no two requests come from the same click; a button   *)
(* whose data-variant-ids yields no positive integer id is, once bound,    *)
(* disabled and without a click listener, and has never sent a request.    *)
(***************************************************************************)
HasNoComponents(b) ==
  blocks[b].hasButton /\ parseIds(blocks[b].variantIds) = <<>>

C17_BoundOnceAndNoComponentsInert ==
  \A b \in DOMAIN blocks :
    /\ listeners[b] <= 1
    /\ \A r, q \in RequestsOf(b) :
         requests[r].click = requests[q].click => r = q
    /\ HasNoComponents(b)
       => /\ bundleBound[b] => (disabled[b] /\ listeners[b] = 0)
          /\ RequestsOf(b) = {}
    /\ (blocks[b].hasButton /\ bundleBound[b] /\ ~HasNoComponents(b))
       => listeners[b] = 1

\* init ran at DOMContentLoaded and again at a section select; the first
\* button, without components, is disabled and has sent nothing, and two
\* clicks on the second sent one request each.
C17_Witness ==
  /\ "DOMContentLoaded" \in registered
  /\ readyState = "interactive"
  /\ lastEvent = "shopify:section:select"
  /\ Len(blocks) = 2
  /\ HasNoComponents(1)
  /\ disabled[1]
  /\ listeners[2] = 1
  /\ Cardinality(RequestsOf(2)) = 2
  /\ clicks = 2

(***************************************************************************)
(* C18. Every bundle:add event dispatched belongs to a request that came   *)
(* back OK, and no request has two; the status reads 'Added!' only on a    *)
(* block one of whose requests came back OK; the page is redirected to     *)
(* /cart only when a request of a redirecting block came back OK.  A       *)
(* request that failed (rejected, or answered not OK) has no event, and    *)
(* when the handler of a block's last request has finished on a failure    *)
(* the block's status reads 'Error adding items.'.                         *)
(***************************************************************************)
CameBackOk(r) == requests[r].response = "ok"

Failed(r) == requests[r].response \in {"rejected", "not ok"}

EventsOf(r) == {e \in DOMAIN events : events[e].request = r}

\* The last request of block b, when its handler has finished.
LastFinished(b, r) ==
  /\ r \in RequestsOf(b)
  /\ \A q \in RequestsOf(b) : q <= r
  /\ HandlersOf(b) = {}

C18_EffectsOnlyAfterOk ==
  /\ \A e \in DOMAIN events : CameBackOk(events[e].request)
  /\ \A r \in DOMAIN requests :
       /\ Cardinality(EventsOf(r)) <= 1
       /\ Failed(r) => EventsOf(r) = {}
  /\ \A b \in DOMAIN blocks :
       /\ status[b].textContent = "Added!"
          => \E r \in RequestsOf(b) : CameBackOk(r) /\ EventsOf(r) # {}
       /\ \A r \in RequestsOf(b) :
            (LastFinished(b, r) /\ Failed(r) /\ blocks[b].hasStatus)
            => status[b].textContent = "Error adding items."
  /\ location = "/cart"
     => \E b \in DOMAIN blocks :
          /\ redirect(b)
          /\ \E r \in RequestsOf(b) : CameBackOk(r) /\ EventsOf(r) # {}

\* One click came back OK and redirected; the next was answered not OK: one
\* event, and the status reads the error.
C18_Witness ==
  /\ Len(requests) = 2
  /\ CameBackOk(1)
  /\ requests[2].response = "not ok"
  /\ requests[2].block = requests[1].block
  /\ Len(events) = 1
  /\ events[1].request = 1
  /\ location = "/cart"
  /\ handlers = <<>>
  /\ status[requests[2].block].textContent = "Error adding items."

(***************************************************************************)
(* The admin route bundles.create: the create branch of its action.  The   *)
(* action awaits each platform call; one step of the model runs the action *)
(* from one await to the next.  What a call returns is the choice of the   *)
(* platform.                                                               *)
(***************************************************************************)
\* parseFloat(s): white space, a sign, then Infinity or digits with at most
\* one point; NaN when no digit is there.  The texts of the form carry no
\* exponent.
InfinityText == <<"I", "n", "f", "i", "n", "i", "t", "y">>

fractionEnd(s, p) ==
  IF p <= Len(s) /\ s[p] = "." THEN scanDigits(s, p + 1, 0).p ELSE p

digitCount(s, q) ==
  LET p == scanDigits(s, q, 0).p
      e == fractionEnd(s, p)
  IN (p - q) + (IF e > p THEN e - p - 1 ELSE 0)

\* Mutant of parseFloat: every text is a number.
parseFloat_always(s) == [kind |-> "finite", text |-> s]

parseFloat(s) ==
  LET p == skipWs(s, 1)
      q == signAt(s, p)
  IN IF hasAt(s, q, InfinityText) THEN [kind |-> "Infinity", text |-> <<>>]
     ELSE IF digitCount(s, q) = 0 THEN [kind |-> "NaN", text |-> <<>>]
     ELSE [kind |-> "finite", text |-> SubSeq(s, p, fractionEnd(s, scanDigits(s, q, 0).p) - 1)]

\* str ? parseFloat(str) : undefined
numericOf(str) ==
  IF Len(str) > 0 THEN parseFloat(str)
  ELSE [kind |-> "undefined", text |-> <<>>]

\* x != null && isFinite(x)
isFinite(x) == x.kind = "finite"

\* (form.get(name) || "").toString().trim()
fieldOf(name) == trim(Or(form[name], Str(<<>>)).s)

title == fieldOf("title")

priceStr == fieldOf("price")

weightStr == fieldOf("weight")

\* (form.get("status") || "DRAFT").toString()
statusOf == Or(form.status, Str(<<"DRAFT">>)).s

\* JSON.parse(form.get("componentVariantIds") || "[]")
componentVariantIds ==
  JSONparse(Or(form.componentVariantIds, Str(<<"[", "]">>)).s)

\* !Array.isArray(componentVariantIds) || componentVariantIds.length === 0
noComponents(v) == v.t # "array" \/ Len(v.a) = 0

\* The variant update of step 3 is due.
updateDue == isFinite(numericOf(priceStr)) \/ isFinite(numericOf(weightStr))

\* json(body, init): the status is 200 unless init names one.
json(ok, message, code) == [ok |-> ok, message |-> message, status |-> code]

OK == 200

BadRequest == 400

\* admin.graphql(call): the call joins the calls issued so far.
graphql(log, call) == Append(log, [call |-> call, answer |-> "pending"])

\* The awaited call has returned.
answered(answer) ==
  [issued EXCEPT ![Len(issued)] = [call |-> issued[Len(issued)].call,
                                   answer |-> answer]]

\* Mutant of userError: a user error of the platform is overlooked.
userError_overlooked(answer) == FALSE

\* userErrors?.[0]?.message is there.
userError(answer) == answer = "userError"

\* The forms a merchant can submit: each field is absent or a text.
Forms ==
  [title : {Null, Str(<<>>), Str(<<" ", " ">>),
            Str(<<" ", "B", "u", "n", "d", "l", "e">>)},
   componentVariantIds :
     {Null, Str(<<"[", "]">>),
      Str(<<"[", "\"">> \o Gid("1") \o <<"\"", "]">>),
      Str(<<"\"">> \o Gid("1") \o <<"\"">>),
      Str(<<"[", "\"">> \o Gid("1"))},
   price : {Null, Str(<<"9", ".", "5">>), Str(<<" ", "1", "2", " ">>),
            Str(<<"a", "b", "c">>), Str(InfinityText), Str(<<" ">>)},
   weight : {Null, Str(<<".", "5">>), Str(<<".">>)},
   status : {Null, Str(<<"ACTIVE">>)}]

\* A form with intent create has reached the action.
InitAdmin ==
  /\ form \in Forms
  /\ at = "start"
  /\ issued = <<>>
  /\ response = <<>>
  /\ NoCart
  /\ NoPage

\* return json(...)
returns(log, ok, message, code) ==
  /\ issued' = log
  /\ response' = <<json(ok, message, code)>>
  /\ at' = "returned"

\* The action rejects: an await threw outside a try block.
throws(log) ==
  /\ issued' = log
  /\ response' = <<>>
  /\ at' = "threw"

\* await admin.graphql(call)
awaits(log, call) ==
  /\ issued' = graphql(log, call)
  /\ at' = call
  /\ UNCHANGED response

\* Lines 261-279: the fields are read, the form is validated, and the
\* definition of the metafield is asked for.
Validate ==
  /\ at = "start"
  /\ IF ~componentVariantIds.ok
     THEN throws(issued)
     ELSE IF Len(title) = 0
       THEN returns(issued, FALSE, "Enter a product title.", BadRequest)
     ELSE IF noComponents(componentVariantIds.v)
       THEN returns(issued, FALSE, "Pick at least one component variant.",
                    BadRequest)
     ELSE awaits(issued, "metafieldDefinitionCreate")
  /\ UNCHANGED <<form, cartVars, buttonVars>>

\* What a mutation of the platform can return: a payload without user
\* errors, a payload with a user error, a body without data, or a throw.
MutationAnswers == {"ok", "userError", "noData", "threw"}

\* Lines 276-292: whatever the definition call did is ignored, and the
\* product is created.
DefinitionReturns(answer) ==
  /\ at = "metafieldDefinitionCreate"
  /\ awaits(answered(answer), "productCreate")
  /\ UNCHANGED <<form, cartVars, buttonVars>>

\* productCreate can also return a product without a variant.
ProductAnswers == MutationAnswers \cup {"noVariant"}

\* Lines 291-325 and 328-339: after productCreate, the variant update when a
\* finite price or weight was given, else metafieldsSet.
ProductCreateReturns(answer) ==
  /\ at = "productCreate"
  /\ IF answer = "threw" THEN throws(answered(answer))
     ELSE IF userError(answer)
       THEN returns(answered(answer), FALSE, "userError", BadRequest)
     ELSE IF answer \in {"noData", "noVariant"}
       THEN returns(answered(answer), FALSE,
                    "New product has no default variant to attach the metafield.",
                    BadRequest)
     ELSE IF updateDue
       THEN awaits(answered(answer), "productVariantsBulkUpdate")
     ELSE awaits(answered(answer), "metafieldsSet")
  /\ UNCHANGED <<form, cartVars, buttonVars>>

\* Lines 319-339: after the variant update, metafieldsSet.
VariantsUpdateReturns(answer) ==
  /\ at = "productVariantsBulkUpdate"
  /\ IF answer = "threw" THEN throws(answered(answer))
     ELSE IF userError(answer)
       THEN returns(answered(answer), FALSE, "userError", BadRequest)
     ELSE awaits(answered(answer), "metafieldsSet")
  /\ UNCHANGED <<form, cartVars, buttonVars>>

\* Lines 328-348: after metafieldsSet, the publications are asked for.
MetafieldsSetReturns(answer) ==
  /\ at = "metafieldsSet"
  /\ IF answer = "threw" THEN throws(answered(answer))
     ELSE IF userError(answer)
       THEN returns(answered(answer), FALSE, "userError", BadRequest)
     ELSE awaits(answered(answer), "publications")
  /\ UNCHANGED <<form, cartVars, buttonVars>>

\* The message of a created bundle.
created ==
  IF statusOf = <<"ACTIVE">>
  THEN "Bundle product created and published to Online Store."
  ELSE "Bundle product created and published (currently Draft; switch to Active to show on Online Store)."

\* The publications query finds the Online Store publication, finds none, or
\* throws; the throw is caught.
PublicationAnswers == {"found", "notFound", "threw"}

\* Lines 343-359 and 372-381: with a publication the product is published,
\* without one the action returns.
PublicationsReturns(answer) ==
  /\ at = "publications"
  /\ IF answer = "found"
     THEN awaits(answered(answer), "publishablePublish")
     ELSE returns(answered(answer), TRUE, created, OK)
  /\ UNCHANGED <<form, cartVars, buttonVars>>

\* Lines 359-381: a user error of the publication is reported in the message
\* of a successful response.
PublishReturns(answer) ==
  /\ at = "publishablePublish"
  /\ IF answer = "threw" THEN throws(answered(answer))
     ELSE IF userError(answer)
       THEN returns(answered(answer), TRUE,
                    "Bundle created, but publishing to Online Store returned: userError",
                    OK)
     ELSE returns(answered(answer), TRUE, created, OK)
  /\ UNCHANGED <<form, cartVars, buttonVars>>

NextAdmin ==
  \/ Validate
  \/ \E answer \in MutationAnswers : DefinitionReturns(answer)
  \/ \E answer \in ProductAnswers : ProductCreateReturns(answer)
  \/ \E answer \in MutationAnswers : VariantsUpdateReturns(answer)
  \/ \E answer \in MutationAnswers : MetafieldsSetReturns(answer)
  \/ \E answer \in PublicationAnswers : PublicationsReturns(answer)
  \/ \E answer \in MutationAnswers : PublishReturns(answer)

SpecAdmin == InitAdmin /\ [][NextAdmin]_vars

(***************************************************************************)
(* The claim about the create action, stated on the calls issued so far    *)
(* and on the response.  The forms are sorted by what was typed into them, *)
(* not by what the action read from them.                                  *)
(***************************************************************************)
\* The four platform calls of the creation, in their order.
Steps ==
  <<"productCreate", "productVariantsBulkUpdate", "metafieldsSet",
    "publishablePublish">>

StepNames == {Steps[k] : k \in DOMAIN Steps}

rank(call) == CHOOSE k \in DOMAIN Steps : Steps[k] = call

\* The calls that change the shop: the four steps and the definition of the
\* metafield.
Mutations == StepNames \cup {"metafieldDefinitionCreate"}

Issued(call) == \E k \in DOMAIN issued : issued[k].call = call

Answered(call, answers) ==
  \E k \in DOMAIN issued : issued[k].call = call /\ issued[k].answer \in answers

\* The title typed is empty once trimmed.
TitleEmpty == form.title \in {Null, Str(<<>>), Str(<<" ", " ">>)}

\* The component list typed is empty.
ComponentListEmpty == form.componentVariantIds \in {Null, Str(<<"[", "]">>)}

\* A finite price or a finite weight was typed.
FiniteSupplied ==
  \/ form.price \in {Str(<<"9", ".", "5">>), Str(<<" ", "1", "2", " ">>)}
  \/ form.weight = Str(<<".", "5">>)

\* The steps were issued in their order, each one once.
InFixedOrder ==
  \A j, k \in DOMAIN issued :
    (j < k /\ issued[j].call \in StepNames /\ issued[k].call \in StepNames)
      => rank(issued[j].call) < rank(issued[k].call)

\* A step is issued only after every earlier step returned, and returned
\* without a user error.
OnlyAfterNoUserError ==
  \A j, k \in DOMAIN issued :
    (j < k /\ issued[j].call \in StepNames /\ issued[k].call \in StepNames)
      => issued[j].answer \notin {"pending", "threw", "userError"}

\* C19: in the create action of the admin route, productCreate, the variant
\* update, metafieldsSet and the publication are issued in this order; the
\* variant update is issued only when a finite price or weight was supplied;
\* each of them is issued only if every earlier one returned without a user
\* error; nothing that changes the shop is issued when the title or the
\* component list is empty; a response with ok: true is returned only after
\* productCreate yielded a default variant and metafieldsSet returned without
\* a user error; and once the publication returned a user error, the
\* response says ok: true.
C19_OrderedCallsAndOkOnlyWhenAttached ==
  /\ InFixedOrder
  /\ OnlyAfterNoUserError
  /\ Issued("productVariantsBulkUpdate") => FiniteSupplied
  /\ (TitleEmpty \/ ComponentListEmpty)
       => \A k \in DOMAIN issued : issued[k].call \notin Mutations
  /\ (response # <<>> /\ response[1].ok)
       => /\ Answered("productCreate", {"ok"})
          /\ Answered("metafieldsSet", {"ok", "noData"})
  /\ (Answered("publishablePublish", {"userError"}) /\ at = "returned")
       => response[1].ok

\* All four steps were issued for a form with a finite price, metafieldsSet
\* returned without a user error, the publication returned one, and the
\* response says ok: true.
C19_Witness ==
  /\ at = "returned"
  /\ response[1].ok
  /\ [k \in DOMAIN issued |-> issued[k].call]
       = <<"metafieldDefinitionCreate", "productCreate",
           "productVariantsBulkUpdate", "metafieldsSet", "publications",
           "publishablePublish">>
  /\ issued[6].answer = "userError"
  /\ issued[1].answer = "userError"

====
